---- MODULE Spec2Model ----
(***************************************************************************)
(* The scan session of iphone_document_scanner.py: the view controller's   *)
(* capture (readSelectionFromPasteboard_), save (saveAllDocuments_) and    *)
(* convert (convertPdfToPng_) handlers, the configuration set up by main,  *)
(* and the representation selector _getBestImageRep.                       *)
(*                                                                         *)
(* Numbers with a fraction are kept in fixed point: jpeg_quality in        *)
(* hundredths (1.0 is 100), resolution_scale and page bounds in halves     *)
(* (1.0 is 2), so an image size, a product of the two, is in quarters.     *)
(* An optional value (Python None / Objective-C nil) is a sequence of      *)
(* length at most one.                                                     *)
(***************************************************************************)
EXTENDS Integers, Sequences, FiniteSets, TLC

VARIABLES
    pc,               \* "boot" before main has configured the program, then "run"
    args,             \* the parsed command line (input of main)
    config,           \* the global Config instance
    captured_data,    \* raw PDF data of the last capture, or None
    captured_images,  \* the images of the last capture
    saveEnabled,      \* saveButton.isEnabled
    convertEnabled,   \* convertToPngButton.isEnabled
    statusLabel,      \* statusLabel.stringValue (its kind, without the counts)
    files,            \* the files under config.output_dir: path -> bytes
    now,              \* datetime.now(), in ticks of 1/TicksPerSecond seconds
    pasteboard,       \* the pasteboard handed to the most recent capture, or None
    last,             \* what the most recent handler call did and returned
    ncalls            \* the number of handler calls so far

vars == <<pc, args, config, captured_data, captured_images, saveEnabled,
          convertEnabled, statusLabel, files, now, pasteboard, last, ncalls>>

-----------------------------------------------------------------------------
(* Bounds of the model *)

MaxClock == 2          \* the clock runs from tick 0 to tick MaxClock
TicksPerSecond == 2    \* clock ticks in one second of the timestamp
MaxCalls == 3          \* the user triggers at most MaxCalls captures, saves and converts
MaxReps == 3           \* representations of one image in the selector's inputs
MaxPixels == 2         \* pixelsWide and pixelsHigh range over 0..MaxPixels

-----------------------------------------------------------------------------
(* Optional values *)

None == <<>>
Some(x) == <<x>>
IsSome(o) == o # <<>>
Get(o) == o[1]

Max(a, b) == IF a >= b THEN a ELSE b
Min(a, b) == IF a <= b THEN a ELSE b

Range(s) == {s[i] : i \in 1..Len(s)}

-----------------------------------------------------------------------------
(* OutputFormat and Config *)

PDF == "pdf"
PNG == "png"
JPEG == "jpeg"
TIFF == "tiff"
OutputFormat == {PDF, PNG, JPEG, TIFF}

DefaultResolutionScale == 8     \* 4.0, in halves
DefaultJpegQuality == 95        \* 0.95, in hundredths

\* Config.__init__
ConfigInit ==
    [filename_prefix  |-> "scanned_document",
     output_formats   |-> <<PDF, PNG>>,
     resolution_scale |-> DefaultResolutionScale,
     jpeg_quality     |-> DefaultJpegQuality]

\* max(0.0, min(1.0, args.jpeg_quality)), in hundredths
ClampQualityLowOnly(q) == Max(0, q)
ClampQuality(q) == Max(0, Min(100, q))

\* max(1.0, args.resolution_scale), in halves
ClampScale(s) == Max(2, s)

\* The command lines the model runs main on: --format takes one or more of the
\* four choices (a choice may be repeated), --jpeg-quality and
\* --resolution-scale any float.
Arg(f, q, s) == [format |-> f, jpeg_quality |-> q, resolution_scale |-> s]
Args == {Arg(<<PDF, PNG>>, 95, 8),        \* the defaults
         Arg(<<PNG, JPEG>>, 150, 3),      \* quality 1.5, scale 1.5
         Arg(<<JPEG, TIFF, PDF>>, -20, 1),\* quality -0.2, scale 0.5
         Arg(<<PNG, PNG>>, 50, 2)}        \* a repeated format, scale 1.0

-----------------------------------------------------------------------------
(* Image representations (NSImageRep), images (NSImage), PDF pages and data *)

AllTypes == {PNG, JPEG, TIFF}

\* A representation: whether it is an NSBitmapImageRep, its pixel size, and the
\* file types representationUsingType_properties_ yields data for.
Rep(b, w, h, e) == [bitmap |-> b, pixelsWide |-> w, pixelsHigh |-> h, enc |-> e]

RepGood == Rep(TRUE, 2, 2, AllTypes)
RepSmall == Rep(TRUE, 1, 2, AllTypes)
RepCached == Rep(FALSE, 2, 2, {})         \* a cached, non-bitmap representation
RepCorrupt == Rep(TRUE, 2, 1, {})         \* a bitmap no type can be encoded from

\* A PDF page: its media box (in halves of a point), the representations of the
\* image it is drawn into, and the bitmap read back from TIFFRepresentation().
Page(w, h, reps, tiff) == [w |-> w, h |-> h, reps |-> reps, tiff |-> tiff]

PageLetter == Page(3, 4, <<RepGood>>, Some(RepGood))
PageSquare == Page(4, 4, <<RepSmall, RepGood>>, Some(RepGood))
PageCorrupt == Page(3, 3, <<RepCorrupt>>, Some(RepCorrupt))
PageCached == Page(3, 5, <<RepCached>>, Some(RepGood))
PageNoRep == Page(5, 3, <<>>, None)

\* NSData. pdf is what PDFDocument.initWithData_ makes of the bytes (None when
\* they do not parse; otherwise the pages, None for a page pageAtIndex_ does
\* not return); image is what NSImage.initWithData_ makes of them; enc is set
\* for the output of an encoder.
Data(id, len, pdf, image) == [id |-> id, len |-> len, pdf |-> pdf, image |-> image, enc |-> None]

Img(reps) == [reps |-> reps]

EmptyData == Data("empty", 0, None, None)
DocA == Data("docA", 2, Some(<<Some(PageLetter), Some(PageCached)>>), None)
DocB == Data("docB", 1, Some(<<Some(PageSquare)>>), None)
DocC == Data("docC", 3, Some(<<Some(PageNoRep), None, Some(PageLetter)>>), None)
DocD == Data("docD", 3, Some(<<Some(PageLetter), Some(PageCorrupt), Some(PageSquare)>>), None)
DocJunk == Data("docJunk", 1, None, None)
DocZero == Data("docZero", 1, Some(<<>>), None)
ImgTiff == Data("imgTiff", 2, None, Some(Img(<<RepSmall, RepGood>>)))
ImgPng == Data("imgPng", 1, None, Some(Img(<<RepGood>>)))
ImgCorrupt == Data("imgCorrupt", 1, None, Some(Img(<<RepCorrupt>>)))
ImgBad == Data("imgBad", 1, None, None)

\* Python truth of an NSData: it has at least one byte
Truthy(data) == IsSome(data) /\ Get(data).len > 0

\* PDFDocument.alloc().initWithData_(data)
PDFDocumentInit(data) == IF IsSome(data) THEN Get(data).pdf ELSE None

\* NSImage.alloc().initWithData_(data)
NSImageInit(data) == Get(data).image

-----------------------------------------------------------------------------
(* Pasteboards *)

NSPasteboardTypePDF == "NSPasteboardTypePDF"
NSPasteboardTypeTIFF == "NSPasteboardTypeTIFF"
NSPasteboardTypePNG == "NSPasteboardTypePNG"

pdf_types == <<"com.adobe.pdf", NSPasteboardTypePDF, "public.pdf">>
image_types == <<NSPasteboardTypeTIFF, NSPasteboardTypePNG, "public.tiff",
                 "public.png", "public.jpeg", "public.image">>

\* A pasteboard: types() is the domain, dataForType_ the value
PbNone == [t \in {} |-> EmptyData]
PbA == [t \in {"com.adobe.pdf", "public.png"} |->
          IF t = "com.adobe.pdf" THEN DocA ELSE ImgPng]
PbB == [t \in {"com.adobe.pdf", "public.pdf"} |->
          IF t = "com.adobe.pdf" THEN EmptyData ELSE DocB]
PbC == [t \in {"com.adobe.pdf", NSPasteboardTypePDF, "public.pdf", "public.png"} |->
          IF t = "com.adobe.pdf" THEN EmptyData
          ELSE IF t = NSPasteboardTypePDF THEN DocC
          ELSE IF t = "public.pdf" THEN DocB ELSE ImgPng]
PbD == [t \in {"com.adobe.pdf"} |-> DocD]
PbJunk == [t \in {"public.pdf"} |-> DocJunk]
PbZero == [t \in {"com.adobe.pdf"} |-> DocZero]
PbRasterAll == [t \in {"public.pdf", NSPasteboardTypeTIFF, NSPasteboardTypePNG,
                       "public.jpeg"} |->
                  IF t = NSPasteboardTypeTIFF THEN ImgTiff
                  ELSE IF t = "public.pdf" THEN EmptyData ELSE ImgPng]
PbRaster3 == [t \in {NSPasteboardTypeTIFF, "public.png", "public.jpeg"} |->
                IF t = NSPasteboardTypeTIFF THEN ImgPng
                ELSE IF t = "public.png" THEN ImgCorrupt ELSE ImgTiff]
PbRasterBad == [t \in {"public.png", "public.jpeg", "unknown.type"} |->
                  IF t = "public.jpeg" THEN ImgBad ELSE EmptyData]

Pasteboards == {PbNone, PbA, PbB, PbC, PbD, PbJunk, PbZero, PbRasterAll, PbRaster3,
                PbRasterBad}

-----------------------------------------------------------------------------
(* Helpers of the view controller *)

\* datetime.now().strftime("%Y%m%d_%H%M%S"): the clock cut to whole seconds
Timestamp(t) == t \div TicksPerSecond

\* The digits of n >= 0, most significant first
RECURSIVE Digits(_)
Digits(n) == IF n < 10 THEN <<n>> ELSE Append(Digits(n \div 10), n % 10)

\* f"{page_num:02d}": the digits, padded with zeros on the left to two places
Format02dUnpadded(n) == Digits(n)
Format02d(n) == IF Len(Digits(n)) < 2 THEN <<0>> \o Digits(n) ELSE Digits(n)

\* config.output_dir / f"{prefix}_{timestamp}.pdf"
DocumentPath(prefix, timestamp) ==
    [prefix |-> prefix, timestamp |-> timestamp, page |-> <<>>, ext |-> PDF]

\* config.output_dir / f"{prefix}_{timestamp}_page{page_num:02d}.{ext}"
PagePath(prefix, timestamp, page_num, ext) ==
    [prefix |-> prefix, timestamp |-> timestamp, page |-> Format02d(page_num), ext |-> ext]

\* The loop of _getBestImageRep over image.representations(), from index i on
RECURSIVE BestRepLoop(_, _, _, _)
BestRepLoop(reps, i, best_rep, max_pixels) ==
    IF i > Len(reps) THEN best_rep
    ELSE LET rep == reps[i]
             pixels == rep.pixelsWide * rep.pixelsHigh
         IN  IF rep.bitmap /\ pixels > max_pixels
             THEN BestRepLoop(reps, i + 1, Some(rep), pixels)
             ELSE BestRepLoop(reps, i + 1, best_rep, max_pixels)

\* _getBestImageRep(image)
getBestImageRep(image) ==
    IF ~IsSome(image) THEN None ELSE BestRepLoop(Get(image).reps, 1, None, 0)

\* NSMakeSize(bounds.size.width * scale_factor, bounds.size.height * scale_factor)
\* in readSelectionFromPasteboard_; bounds and scale in halves, the size in quarters
captureSize(bounds, scale_factor) ==
    [width |-> bounds.w * scale_factor, height |-> bounds.h * scale_factor]

\* The same in convertPdfToPng_
convertSizeWidthOnly(bounds, scale_factor) ==
    [width |-> bounds.w * scale_factor, height |-> bounds.h * 2]
convertSize(bounds, scale_factor) ==
    [width |-> bounds.w * scale_factor, height |-> bounds.h * scale_factor]

\* The NSImage a page is drawn into
RenderedImage(data, i, page, size) ==
    [size |-> Some(size), reps |-> page.reps, tiff |-> page.tiff,
     src |-> data.id, page |-> i]

\* The NSImage decoded from raster data
DecodedImage(data) ==
    [size |-> None, reps |-> Get(NSImageInit(Some(data))).reps, tiff |-> None,
     src |-> data.id, page |-> 0]

\* rep.representationUsingType_properties_(type, properties)
representationUsingType(rep, type, properties) ==
    IF type \in rep.enc
    THEN Some([id |-> "encoded", len |-> 1, pdf |-> None, image |-> None,
               enc |-> Some([rep |-> rep, type |-> type, properties |-> properties])])
    ELSE None

\* NSBitmapImageRep.imageRepWithData_(image.TIFFRepresentation())
TIFFRep(image) == image.tiff

-----------------------------------------------------------------------------
(* What a handler call leaves behind for inspection *)

LastNone ==
    [op          |-> "none",  \* the handler that ran last
     ret         |-> None,    \* the return value of readSelectionFromPasteboard_
     log         |-> "",      \* the last warning or error it logged
     clock       |-> 0,       \* the clock when it started
     timestamp   |-> None,    \* the timestamp it took, if it took one
     fails       |-> {},      \* the paths whose write failed during it
     files_saved |-> <<>>,    \* its files_saved list
     calls       |-> <<>>,    \* the encodings it asked for, in order
     rendered    |-> <<>>,    \* the sizes of the images it rendered, in order
     before      |-> [data |-> FALSE, images |-> 0],  \* what was held when it started: data? how many images?
     fetched     |-> <<>>,    \* the types it called dataForType_ with, in order
     report      |-> None,    \* what it reported of its batch, if it finished one
     best_rep    |-> None]    \* the result of a lone _getBestImageRep call

\* What the session holds, in short
Held == [data |-> IsSome(captured_data), images |-> Len(captured_images)]

\* The sets of failing writes the model tries on a batch over `paths`:
\* none fails, one fails, all fail
FailSets(paths) == {{}} \cup {{p} : p \in paths} \cup {paths}

\* data.writeToFile_atomically_(str(path), True)
WriteOk(path, fails) == path \notin fails

\* The files after the successful writes of `writes`, applied in order
RECURSIVE Written(_, _, _)
Written(fs, writes, i) ==
    IF i > Len(writes) THEN fs
    ELSE LET w == writes[i]
             dom == DOMAIN fs \cup {w.path}
         IN  IF w.ok
             THEN Written([p \in dom |-> IF p = w.path THEN w.data ELSE fs[p]], writes, i + 1)
             ELSE Written(fs, writes, i + 1)

-----------------------------------------------------------------------------
(* readSelectionFromPasteboard_ *)

\* The loop over pdf_types from index i on: pdf_data after it, and the types
\* dataForType_ was called with
RECURSIVE PdfLoopNoBreak(_, _, _, _)
PdfLoopNoBreak(pb, i, pdf_data, fetched) ==
    IF i > Len(pdf_types) THEN [data |-> pdf_data, fetched |-> fetched]
    ELSE IF pdf_types[i] \in DOMAIN pb
         THEN PdfLoopNoBreak(pb, i + 1, Some(pb[pdf_types[i]]), Append(fetched, pdf_types[i]))
         ELSE PdfLoopNoBreak(pb, i + 1, pdf_data, fetched)

RECURSIVE PdfLoop(_, _, _, _)
PdfLoop(pb, i, pdf_data, fetched) ==
    IF i > Len(pdf_types) THEN [data |-> pdf_data, fetched |-> fetched]
    ELSE IF pdf_types[i] \in DOMAIN pb
         THEN LET data == Some(pb[pdf_types[i]])
              IN  IF Truthy(data)
                  THEN [data |-> data, fetched |-> Append(fetched, pdf_types[i])]
                  ELSE PdfLoop(pb, i + 1, data, Append(fetched, pdf_types[i]))
         ELSE PdfLoop(pb, i + 1, pdf_data, fetched)

\* The probe of pdf_types: pdf_data after the loop over pdf_types from index i on
PdfProbe(pb, i, pdf_data) == PdfLoop(pb, i, pdf_data, <<>>).data

\* The loop over the pages of pdf_doc, from page index i - 1 on
RECURSIVE RenderPages(_, _, _, _, _)
RenderPages(data, doc, i, scale_factor, images) ==
    IF i > Len(doc) THEN images
    ELSE IF IsSome(doc[i])
         THEN RenderPages(data, doc, i + 1, scale_factor,
                  Append(images, RenderedImage(data, i, Get(doc[i]),
                                               captureSize(Get(doc[i]), scale_factor))))
         ELSE RenderPages(data, doc, i + 1, scale_factor, images)

\* The loop over image_types, from index i on
DecodeImagesFirstOnly(pb, i, images) ==
    LET hits == {j \in i..Len(image_types) :
                    /\ image_types[j] \in DOMAIN pb
                    /\ Truthy(Some(pb[image_types[j]]))
                    /\ IsSome(NSImageInit(Some(pb[image_types[j]])))}
    IN  IF hits = {} THEN images
        ELSE Append(images,
                    DecodedImage(pb[image_types[CHOOSE j \in hits : \A k \in hits : j <= k]]))

RECURSIVE DecodeImages(_, _, _)
DecodeImages(pb, i, images) ==
    IF i > Len(image_types) THEN images
    ELSE IF image_types[i] \in DOMAIN pb
            /\ Truthy(Some(pb[image_types[i]]))
            /\ IsSome(NSImageInit(Some(pb[image_types[i]])))
         THEN DecodeImages(pb, i + 1, Append(images, DecodedImage(pb[image_types[i]])))
         ELSE DecodeImages(pb, i + 1, images)

\* The types the loop over image_types calls dataForType_ with: every listed
\* type that is in types
ImageFetched(pb) == SelectSeq(image_types, LAMBDA t : t \in DOMAIN pb)

\* The types a capture of pb calls dataForType_ with, in order
Fetched(pb) ==
    LET probe == PdfLoop(pb, 1, None, <<>>)
    IN  IF Truthy(probe.data) THEN probe.fetched
        ELSE probe.fetched \o ImageFetched(pb)

\* The capture proper, starting from the image list images0: the data and the
\* images held afterwards, and which branch was taken
CaptureFrom(pb, images0, scale_factor) ==
    LET pdf_data == PdfProbe(pb, 1, None)
        pdf_doc == PDFDocumentInit(pdf_data)
    IN  IF Truthy(pdf_data)
        THEN [data |-> pdf_data,
              images |-> IF IsSome(pdf_doc)
                         THEN RenderPages(Get(pdf_data), Get(pdf_doc), 1, scale_factor, images0)
                         ELSE images0,
              branch |-> IF IsSome(pdf_doc) THEN "pdf" ELSE "raw"]
        ELSE [data |-> None,
              images |-> DecodeImages(pb, 1, images0),
              branch |-> "image"]

\* The reset of captured_images and captured_data, then the capture
CaptureKeeping(pb, held_images, scale_factor) == CaptureFrom(pb, held_images, scale_factor)
Capture(pb, held_images, scale_factor) == CaptureFrom(pb, <<>>, scale_factor)

\* return len(self.captured_images) > 0 or self.captured_data is not None
CaptureReturnImagesOnly(images, data) == Len(images) > 0
CaptureReturn(images, data) == Len(images) > 0 \/ IsSome(data)

\* else: self._saveRawPDF(pdf_data), the fallback when the document data does
\* not parse
SavesRawAlways(branch) == branch # "image"
SavesRaw(branch) == branch = "raw"

readSelectionFromPasteboard_ ==
    /\ pc = "run"
    /\ ncalls < MaxCalls
    /\ ncalls' = ncalls + 1
    /\ \E pb \in Pasteboards, write_fails \in BOOLEAN :
        LET c == Capture(pb, captured_images, config.resolution_scale)
            \* _saveRawPDF, called when the data does not parse
            path == DocumentPath(config.filename_prefix, Timestamp(now))
            raw == SavesRaw(c.branch)
            fails == IF write_fails THEN {path} ELSE {}
            writes == IF raw THEN <<[path |-> path, data |-> Get(c.data),
                                     ok |-> WriteOk(path, fails)]>>
                      ELSE <<>>
        IN  /\ raw \/ ~write_fails
            /\ captured_data' = c.data
            /\ captured_images' = c.images
            /\ files' = Written(files, writes, 1)
            /\ saveEnabled' = IF c.branch # "raw" /\ c.images # <<>> THEN TRUE ELSE saveEnabled
            /\ convertEnabled' = IF c.images = <<>> \/ c.branch = "raw" THEN convertEnabled
                                 ELSE c.branch = "pdf"
            /\ statusLabel' = IF c.branch = "raw"
                              THEN IF WriteOk(path, fails) THEN "PDF saved" ELSE statusLabel
                              ELSE IF c.images = <<>> THEN statusLabel
                              ELSE IF c.branch = "pdf" THEN "Scanned page(s) successfully!"
                              ELSE "Captured image(s)"
            /\ pasteboard' = Some(pb)
            /\ last' = [LastNone EXCEPT
                          !.op = "capture",
                          !.ret = Some(CaptureReturn(c.images, c.data)),
                          !.log = IF c.branch = "raw"
                                  THEN "Could not create PDFDocument from data" ELSE "",
                          !.clock = now,
                          !.timestamp = IF raw THEN Some(Timestamp(now)) ELSE None,
                          !.fails = fails,
                          !.fetched = Fetched(pb),
                          !.rendered = IF c.branch = "pdf"
                                       THEN [i \in 1..Len(c.images) |-> c.images[i].size]
                                       ELSE <<>>,
                          !.before = Held]
    /\ UNCHANGED <<pc, args, config, now>>

-----------------------------------------------------------------------------
(* _saveImageRep and saveAllDocuments_ *)

\* type_map of _saveImageRep: the formats it has a file type for
type_map == {PNG, JPEG, TIFF}

\* _saveImageRep(rep, filepath, format): the data it encoded, whether it
\* returned True, and whether it raised (a format type_map has no key for)
saveImageRepRaising(rep, filepath, format, jpeg_quality, fails) ==
    IF ~IsSome(rep)
    THEN [data |-> None, ok |-> FALSE, raised |-> FALSE]
    ELSE IF format \notin type_map
    THEN [data |-> None, ok |-> FALSE, raised |-> TRUE]
    ELSE LET properties == IF format = JPEG THEN Some(jpeg_quality) ELSE None
             data == representationUsingType(Get(rep), format, properties)
         IN  [data |-> data,
              ok |-> IsSome(data) /\ WriteOk(filepath, fails),
              raised |-> IsSome(data) /\ ~WriteOk(filepath, fails)]

saveImageRep(rep, filepath, format, jpeg_quality, fails) ==
    IF ~IsSome(rep)
    THEN [data |-> None, ok |-> FALSE, raised |-> FALSE]
    ELSE IF format \notin type_map
    THEN [data |-> None, ok |-> FALSE, raised |-> TRUE]
    ELSE LET properties == IF format = JPEG THEN Some(jpeg_quality) ELSE None
             data == representationUsingType(Get(rep), format, properties)
         IN  [data |-> data,
              ok |-> IsSome(data) /\ WriteOk(filepath, fails),
              raised |-> FALSE]

\* if fmt == OutputFormat.PDF: continue
SkipsEncoderNever(fmt) == FALSE
SkipsEncoder(fmt) == fmt = PDF

\* page_num = i + 1, for the 0-based position i of enumerate
PageNum(i) == i + 1

\* The loops of saveAllDocuments_ over captured_images (1-based position i)
\* and config.output_formats (position j): the calls of _saveImageRep, in
\* order; a call that raises ends the handler
RECURSIVE SaveLoop(_, _, _, _, _, _)
SaveLoop(images, cfg, timestamp, fails, i, j) ==
    IF i > Len(images) THEN <<>>
    ELSE LET best_rep == getBestImageRep(Some(images[i]))
         IN  IF ~IsSome(best_rep) \/ j > Len(cfg.output_formats)
             THEN SaveLoop(images, cfg, timestamp, fails, i + 1, 1)
             ELSE LET fmt == cfg.output_formats[j]
                      page_num == PageNum(i - 1)
                      filepath == PagePath(cfg.filename_prefix, timestamp, page_num, fmt)
                      r == saveImageRep(best_rep, filepath, fmt, cfg.jpeg_quality, fails)
                      call == [page |-> i, format |-> fmt, path |-> filepath,
                               rep |-> best_rep, data |-> r.data, ok |-> r.ok,
                               raised |-> r.raised]
                  IN  IF SkipsEncoder(fmt)
                      THEN SaveLoop(images, cfg, timestamp, fails, i, j + 1)
                      ELSE IF r.raised THEN <<call>>
                      ELSE <<call>> \o SaveLoop(images, cfg, timestamp, fails, i, j + 1)

\* The calls up to and including the first one that did not succeed
RECURSIVE UpToFailure(_, _)
UpToFailure(calls, i) ==
    IF i > Len(calls) THEN calls
    ELSE IF calls[i].ok THEN UpToFailure(calls, i + 1) ELSE SubSeq(calls, 1, i)

SaveCallsAborting(images, cfg, timestamp, fails) ==
    UpToFailure(SaveLoop(images, cfg, timestamp, fails, 1, 1), 1)
SaveCalls(images, cfg, timestamp, fails) ==
    SaveLoop(images, cfg, timestamp, fails, 1, 1)

\* The write of the raw PDF: if self.captured_data and OutputFormat.PDF in
\* config.output_formats
SavePdfWrite(data, cfg, timestamp, fails) ==
    IF Truthy(data) /\ PDF \in Range(cfg.output_formats)
    THEN LET path == DocumentPath(cfg.filename_prefix, timestamp)
         IN  <<[path |-> path, data |-> Get(data), ok |-> WriteOk(path, fails)]>>
    ELSE <<>>

\* The writes a list of encoder calls makes: one for each call that had data
CallWrites(calls) ==
    LET made == SelectSeq(calls, LAMBDA c : IsSome(c.data))
    IN  [k \in 1..Len(made) |->
            [path |-> made[k].path, data |-> Get(made[k].data), ok |-> made[k].ok]]

\* The paths of the writes that succeeded, in order
SavedPaths(writes) ==
    LET done == SelectSeq(writes, LAMBDA w : w.ok)
    IN  [k \in 1..Len(done) |-> done[k].path]

\* Every path a save of the held capture may write
SavePaths(data, images, cfg, timestamp) ==
    {w.path : w \in Range(SavePdfWrite(data, cfg, timestamp, {})
                          \o CallWrites(SaveCalls(images, cfg, timestamp, {})))}

\* if not self.captured_images and not self.captured_data
NothingToSaveNever(images, data) == FALSE
NothingToSaveNoImages(images, data) == images = <<>>
NothingToSave(images, data) == images = <<>> /\ ~Truthy(data)

\* What a finished batch reports: the status label "Saved N file(s)" or
\* "Successfully converted N page(s) to PNG" with N = len(files_saved), and
\* one "Saved ...: <path>" log line for each entry of files_saved
ReportNothing(files_saved) == [files_written |-> <<>>, count |-> 0]
Report(files_saved) == [files_written |-> files_saved, count |-> Len(files_saved)]

\* The timestamp of a handler that starts at clock t
TakeTimestamp(t) == Timestamp(t)

\* What saveAllDocuments_ does to the files and reports, for the failing writes `fails`
SaveEffects(fails) ==
    IF NothingToSave(captured_images, captured_data)
    THEN /\ last' = [LastNone EXCEPT
                       !.op = "save", !.log = "No documents to save", !.clock = now,
                       !.before = Held]
         /\ fails = {}
         /\ UNCHANGED <<files, statusLabel>>
    ELSE LET timestamp == TakeTimestamp(now)
             calls == SaveCalls(captured_images, config, timestamp, fails)
             writes == SavePdfWrite(captured_data, config, timestamp, fails)
                       \o CallWrites(calls)
             raised == calls # <<>> /\ calls[Len(calls)].raised
         IN  /\ files' = Written(files, writes, 1)
             /\ statusLabel' = IF raised THEN statusLabel ELSE "Saved file(s)"
             /\ last' = [LastNone EXCEPT
                           !.op = "save", !.clock = now,
                           !.log = IF raised THEN "KeyError" ELSE "",
                           !.timestamp = Some(timestamp),
                           !.fails = fails,
                           !.files_saved = SavedPaths(writes),
                           !.report = IF raised THEN None
                                      ELSE Some(Report(SavedPaths(writes))),
                           !.calls = calls,
                           !.before = Held]

saveAllDocuments_Consuming ==
    /\ pc = "run"
    /\ ncalls < MaxCalls
    /\ ncalls' = ncalls + 1
    /\ \E fails \in FailSets(SavePaths(captured_data, captured_images, config,
                                       TakeTimestamp(now))) : SaveEffects(fails)
    /\ captured_images' = <<>>
    /\ UNCHANGED <<pc, args, config, captured_data, saveEnabled,
                   convertEnabled, now, pasteboard>>

saveAllDocuments_ ==
    /\ pc = "run"
    /\ ncalls < MaxCalls
    /\ ncalls' = ncalls + 1
    /\ \E fails \in FailSets(SavePaths(captured_data, captured_images, config,
                                       TakeTimestamp(now))) : SaveEffects(fails)
    /\ UNCHANGED <<pc, args, config, captured_data, captured_images, saveEnabled,
                   convertEnabled, now, pasteboard>>

-----------------------------------------------------------------------------
(* convertPdfToPng_ *)

\* The loop of convertPdfToPng_ over the pages of pdf_doc (1-based position i):
\* for each page that is returned, the image size, the representation chosen
\* (with the TIFF fallback), the PNG data and whether the file was written
RECURSIVE ConvertLoop(_, _, _, _, _, _)
ConvertLoop(data, doc, cfg, timestamp, fails, i) ==
    IF i > Len(doc) THEN <<>>
    ELSE IF ~IsSome(doc[i]) THEN ConvertLoop(data, doc, cfg, timestamp, fails, i + 1)
    ELSE LET page == Get(doc[i])
             size == convertSize(page, cfg.resolution_scale)
             image == RenderedImage(data, i, page, size)
             found == getBestImageRep(Some(image))
             best_rep == IF IsSome(found) THEN found ELSE TIFFRep(image)
             page_num == PageNum(i - 1)
             filepath == PagePath(cfg.filename_prefix, timestamp, page_num, PNG)
             png == IF IsSome(best_rep)
                    THEN representationUsingType(Get(best_rep), PNG, None)
                    ELSE None
         IN  <<[page |-> i, format |-> PNG, path |-> filepath, size |-> size,
                rep |-> best_rep, data |-> png,
                ok |-> IsSome(png) /\ WriteOk(filepath, fails),
                raised |-> FALSE]>>
             \o ConvertLoop(data, doc, cfg, timestamp, fails, i + 1)

ConvertPages(data, doc, cfg, timestamp, fails) ==
    ConvertLoop(data, doc, cfg, timestamp, fails, 1)

\* Every path a convert of the held data may write
ConvertPaths(data, cfg, timestamp) ==
    IF Truthy(data) /\ IsSome(PDFDocumentInit(data))
    THEN {c.path : c \in Range(ConvertPages(Get(data), Get(PDFDocumentInit(data)),
                                            cfg, timestamp, {}))}
    ELSE {}

\* What convertPdfToPng_ does to the files and reports, for the failing writes `fails`
ConvertEffects(fails) ==
    LET before == Held
        pdf_doc == PDFDocumentInit(captured_data)
    IN  IF ~Truthy(captured_data)
        THEN /\ statusLabel' = "No PDF data available for conversion"
             /\ last' = [LastNone EXCEPT
                           !.op = "convert", !.log = "No PDF data to convert",
                           !.clock = now, !.before = before]
             /\ fails = {}
             /\ UNCHANGED files
        ELSE IF ~IsSome(pdf_doc)
        THEN /\ statusLabel' = "Error: Could not process PDF"
             /\ last' = [LastNone EXCEPT
                           !.op = "convert",
                           !.log = "Failed to create PDF document for conversion",
                           !.clock = now, !.before = before]
             /\ fails = {}
             /\ UNCHANGED files
        ELSE LET timestamp == TakeTimestamp(now)
                 pages == ConvertPages(Get(captured_data), Get(pdf_doc), config,
                                       timestamp, fails)
                 calls == SelectSeq(pages, LAMBDA c : IsSome(c.rep))
                 writes == CallWrites(calls)
                 files_saved == SavedPaths(writes)
             IN  /\ files' = Written(files, writes, 1)
                 /\ statusLabel' = IF files_saved # <<>>
                                   THEN "Successfully converted page(s) to PNG"
                                   ELSE "Error: No pages could be converted"
                 /\ last' = [LastNone EXCEPT
                               !.op = "convert", !.clock = now,
                               !.log = IF files_saved # <<>> THEN ""
                                       ELSE "Failed to convert any PDF pages to PNG",
                               !.timestamp = Some(timestamp),
                               !.fails = fails,
                               !.files_saved = files_saved,
                               !.report = IF files_saved # <<>>
                                          THEN Some(Report(files_saved)) ELSE None,
                               !.calls = [k \in 1..Len(calls) |->
                                  [page |-> calls[k].page, format |-> calls[k].format,
                                   path |-> calls[k].path, rep |-> calls[k].rep,
                                   data |-> calls[k].data, ok |-> calls[k].ok,
                                   raised |-> calls[k].raised]],
                               !.rendered = [k \in 1..Len(pages) |-> Some(pages[k].size)],
                               !.before = before]

convertPdfToPng_ ==
    /\ pc = "run"
    /\ ncalls < MaxCalls
    /\ ncalls' = ncalls + 1
    /\ \E fails \in FailSets(ConvertPaths(captured_data, config, TakeTimestamp(now))) :
          ConvertEffects(fails)
    /\ UNCHANGED <<pc, args, config, captured_data, captured_images, saveEnabled,
                   convertEnabled, now, pasteboard>>

-----------------------------------------------------------------------------
(* main, the clock, and the specification *)

\* main: the configuration is set from the command line, then the window opens
\* (init and loadView of the view controller)
main ==
    /\ pc = "boot"
    /\ config' = [config EXCEPT
                    !.jpeg_quality = ClampQuality(args.jpeg_quality),
                    !.resolution_scale = ClampScale(args.resolution_scale),
                    !.output_formats = args.format]
    /\ pc' = "run"
    /\ last' = [LastNone EXCEPT !.op = "main"]
    /\ UNCHANGED <<args, captured_data, captured_images, saveEnabled, convertEnabled,
                   statusLabel, files, now, pasteboard, ncalls>>

\* Time passes between two handler calls
Tick ==
    /\ now < MaxClock
    /\ now' = now + 1
    /\ UNCHANGED <<pc, args, config, captured_data, captured_images, saveEnabled,
                   convertEnabled, statusLabel, files, pasteboard, last, ncalls>>

Init ==
    /\ pc = "boot"
    /\ args \in Args
    /\ config = ConfigInit
    /\ captured_data = None
    /\ captured_images = <<>>
    /\ saveEnabled = FALSE
    /\ convertEnabled = FALSE
    /\ statusLabel = "Click 'Scan Document' to start scanning with your iPhone"
    /\ files = <<>>
    /\ now = 0
    /\ pasteboard = None
    /\ last = LastNone
    /\ ncalls = 0

Next ==
    \/ main
    \/ readSelectionFromPasteboard_
    \/ saveAllDocuments_
    \/ convertPdfToPng_
    \/ Tick

Spec == Init /\ [][Next]_vars

-----------------------------------------------------------------------------
(* What the claims speak of, stated without the handlers' own loops *)

\* The document payload a capture of pb finds: the data of the first alias,
\* in the order of pdf_types, that is available with at least one byte
PayloadOf(pb) ==
    LET hits == {i \in 1..Len(pdf_types) :
                    pdf_types[i] \in DOMAIN pb /\ pb[pdf_types[i]].len > 0}
    IN  IF hits = {} THEN None
        ELSE Some(pb[pdf_types[CHOOSE i \in hits : \A j \in hits : i <= j]])

\* The number of pages a capture of pb yields
PagesOf(pb) ==
    IF IsSome(PayloadOf(pb))
    THEN LET doc == Get(PayloadOf(pb)).pdf
         IN  IF IsSome(doc)
             THEN Cardinality({i \in 1..Len(Get(doc)) : IsSome(Get(doc)[i])})
             ELSE 0
    ELSE Cardinality({i \in 1..Len(image_types) :
            /\ image_types[i] \in DOMAIN pb
            /\ pb[image_types[i]].len > 0
            /\ IsSome(pb[image_types[i]].image)})

\* A handler call has just been made in this step
Called == ncalls' = ncalls + 1

\* The session holds nothing
Idle == ~IsSome(captured_data) /\ captured_images = <<>>

\* The last handler call was a save or a convert that ran its batch
Batch(op) == last.op = op /\ IsSome(last.timestamp)

\* The number a digit sequence stands for
RECURSIVE Value(_)
Value(ds) == IF ds = <<>> THEN 0 ELSE 10 * Value(SubSeq(ds, 1, Len(ds) - 1)) + ds[Len(ds)]

-----------------------------------------------------------------------------
\* C1: whatever was held before, after a capture the session holds exactly
\* what the pasteboard of the most recent capture yields: its document payload
\* (or none) and one image for each of its pages, every image made from that
\* pasteboard's data, and nothing of an earlier capture.
C1_HeldIsLastCapture ==
    IF IsSome(pasteboard)
    THEN LET pb == Get(pasteboard)
         IN  /\ captured_data = PayloadOf(pb)
             /\ Len(captured_images) = PagesOf(pb)
             /\ \A i \in 1..Len(captured_images) :
                   \E t \in DOMAIN pb : captured_images[i].src = pb[t].id
    ELSE Idle

\* C1 witness: a one-page document was captured while two pages were held
C1_Witness ==
    /\ last.op = "capture"
    /\ last.before.images = 2
    /\ pasteboard = Some(PbB)
    /\ Len(captured_images) = 1

\* C2: readSelectionFromPasteboard_ returns True exactly when captured_data
\* (which, when set, has at least one byte) or captured_images is non-empty.
C2_ReturnsTrueIffHeld ==
    last.op = "capture" =>
        /\ IsSome(last.ret)
        /\ Get(last.ret) <=> (IsSome(captured_data) \/ Len(captured_images) > 0)
        /\ ~Get(last.ret) <=> Idle
        /\ IsSome(captured_data) => Get(captured_data).len > 0

\* C2 witness: a capture returned True with document bytes and no page
C2_Witness ==
    /\ last.op = "capture"
    /\ last.ret = Some(TRUE)
    /\ IsSome(captured_data)
    /\ captured_images = <<>>

\* The page/format pair (i, fmt) of a save succeeds: the page has a best
\* representation, it can be encoded to fmt, and the write does not fail
SaveSucceeds(i, fmt) ==
    LET rep == getBestImageRep(Some(captured_images[i]))
        path == PagePath(config.filename_prefix, Get(last.timestamp), i, fmt)
    IN  IsSome(rep) /\ fmt \in Get(rep).enc /\ path \notin last.fails

\* Page i of the held document is converted: the page is returned, it has a
\* representation (its best one, else the TIFF one) that can be encoded to
\* PNG, and the write does not fail
ConvertSucceeds(i) ==
    LET doc == Get(Get(captured_data).pdf)
        path == PagePath(config.filename_prefix, Get(last.timestamp), i, PNG)
    IN  /\ IsSome(doc[i])
        /\ LET page == Get(doc[i])
               best == getBestImageRep(Some([reps |-> page.reps]))
               rep == IF IsSome(best) THEN best ELSE page.tiff
           IN  IsSome(rep) /\ PNG \in Get(rep).enc /\ path \notin last.fails

\* C3: after a save, for every held page and every requested format other
\* than PDF, the file of that pair is in files_saved and on disk exactly when
\* the pair succeeds, whatever happened to the other pairs; after a convert,
\* the same for every page of the document.
C3_FailuresAreIsolated ==
    /\ Batch("save") =>
          \A i \in 1..Len(captured_images) :
             \A fmt \in Range(config.output_formats) \ {PDF} :
                LET path == PagePath(config.filename_prefix, Get(last.timestamp), i, fmt)
                IN  /\ SaveSucceeds(i, fmt) <=> path \in Range(last.files_saved)
                    /\ SaveSucceeds(i, fmt) => path \in DOMAIN files
                    /\ IsSome(getBestImageRep(Some(captured_images[i])))
                          => \E k \in 1..Len(last.calls) :
                                last.calls[k].page = i /\ last.calls[k].format = fmt
    /\ Batch("convert") =>
          \A i \in 1..Len(Get(Get(captured_data).pdf)) :
             LET path == PagePath(config.filename_prefix, Get(last.timestamp), i, PNG)
             IN  /\ ConvertSucceeds(i) <=> path \in Range(last.files_saved)
                 /\ ConvertSucceeds(i) => path \in DOMAIN files

\* C3 witness: three pages were saved, the second could not be encoded, and
\* files were written for the first and the third only
C3_Witness ==
    /\ Batch("save")
    /\ Len(captured_images) = 3
    /\ \E fmt \in Range(config.output_formats) \ {PDF} :
          LET path(i) == PagePath(config.filename_prefix, Get(last.timestamp), i, fmt)
          IN  /\ path(1) \in DOMAIN files
              /\ path(2) \notin DOMAIN files
              /\ path(3) \in DOMAIN files

\* C4: a save or a convert called while nothing is held writes no file,
\* leaves the held result, the buttons and the configuration as they were,
\* saves nothing and only reports that there is nothing to do.
C4_IdleSaveConvertDoNothing ==
    [][(Idle /\ Called /\ last'.op \in {"save", "convert"}) =>
          /\ files' = files
          /\ UNCHANGED <<captured_data, captured_images, saveEnabled, convertEnabled,
                         config, pasteboard>>
          /\ last'.files_saved = <<>>
          /\ last'.calls = <<>>
          /\ last'.timestamp = None
          /\ last'.log \in {"No documents to save", "No PDF data to convert"}]_vars

\* C4 witness: a convert was called while nothing was held, after a capture
\* that found nothing
C4_Witness ==
    /\ last.op = "convert"
    /\ last.before = [data |-> FALSE, images |-> 0]
    /\ IsSome(pasteboard)
    /\ Idle

\* C5: a save or a convert leaves captured_data and captured_images as they
\* were, whatever succeeds or fails; they change only in a capture.
C5_SaveConvertKeepCapture ==
    [][/\ (Called /\ last'.op \in {"save", "convert"})
           => UNCHANGED <<captured_data, captured_images>>
       /\ (captured_data' # captured_data \/ captured_images' # captured_images)
           => (Called /\ last'.op = "capture")]_vars

\* C5 witness: a save in which a write failed was followed by a second save of
\* the same capture
C5_Witness ==
    /\ Batch("save")
    /\ ncalls = 3
    /\ last.fails # {}
    /\ last.before = Held
    /\ captured_images # <<>>

\* C6: in a save, the PDF file holds the very data the last capture took from
\* the pasteboard, and no call of the per-page encoder asks for the PDF kind.
C6_PdfIsPassedThrough ==
    Batch("save") =>
        LET path == DocumentPath(config.filename_prefix, Get(last.timestamp))
        IN  /\ \A k \in 1..Len(last.calls) : last.calls[k].format # PDF
            /\ \A p \in Range(last.files_saved) : p.ext = PDF => p = path
            /\ path \in Range(last.files_saved) =>
                  /\ IsSome(captured_data)
                  /\ files[path] = Get(captured_data)
                  /\ files[path] = Get(PayloadOf(Get(pasteboard)))
                  /\ files[path].enc = None

\* C6 witness: a save wrote the PDF and encoded pages for other kinds
C6_Witness ==
    /\ Batch("save")
    /\ DocumentPath(config.filename_prefix, Get(last.timestamp)) \in Range(last.files_saved)
    /\ last.calls # <<>>
    /\ PDF \in Range(config.output_formats)

\* C7: every file written by one save or convert carries the timestamp taken
\* at the start of the call (the second the call started in), and the file of
\* the page at 1-based position n carries the digits of n, padded with zeros
\* to at least two places, so that different pages carry different numbers.
C7_OneTimestampPaddedPages ==
    (Batch("save") \/ Batch("convert")) =>
        LET ts == Get(last.timestamp)
        IN  /\ ts * TicksPerSecond <= last.clock
            /\ last.clock < (ts + 1) * TicksPerSecond
            /\ \A p \in Range(last.files_saved) : p.timestamp = ts
            /\ \A k \in 1..Len(last.calls) :
                  LET c == last.calls[k]
                  IN  /\ c.path.timestamp = ts
                      /\ Len(c.path.page) >= 2
                      /\ Value(c.path.page) = c.page
                      /\ c.page < 10 => c.path.page = <<0, c.page>>
            /\ \A k1, k2 \in 1..Len(last.calls) :
                  last.calls[k1].page # last.calls[k2].page
                     => last.calls[k1].path.page # last.calls[k2].path.page

\* C7 witness: three pages were saved in one format at a clock past the first
\* second, as pages 01, 02 and 03 with the one timestamp
C7_Witness ==
    /\ Batch("save")
    /\ last.timestamp = Some(1)
    /\ \E fmt \in AllTypes :
          \A n \in 1..3 :
             [prefix |-> config.filename_prefix, timestamp |-> 1,
              page |-> <<0, n>>, ext |-> fmt] \in Range(last.files_saved)

\* The pages of a document that are returned, in order
PagesReturned(doc) ==
    LET some == SelectSeq(doc, IsSome) IN [k \in 1..Len(some) |-> Get(some[k])]

\* The requested jpeg quality (hundredths) and scale (halves), put in range
InRangeQuality(q) == IF q < 0 THEN 0 ELSE IF q > 100 THEN 100 ELSE q
InRangeScale(s) == IF s < 2 THEN 2 ELSE s

\* The size of every image rendered in this state, with the page it was
\* rendered from: the held images of a PDF capture, and the images of the
\* last convert
Renderings ==
    {[size |-> Get(captured_images[i].size),
      page |-> Get(Get(Get(captured_data).pdf)[captured_images[i].page])] :
        i \in {j \in 1..Len(captured_images) : IsSome(captured_images[j].size)}}
    \cup
    (IF Batch("convert")
     THEN {[size |-> Get(last.rendered[k]),
            page |-> PagesReturned(Get(Get(captured_data).pdf))[k]] :
              k \in 1..Len(last.rendered)}
     ELSE {})

\* C9: once main has run, jpeg_quality is the requested value brought into
\* [0.0, 1.0] and resolution_scale the requested value raised to at least
\* 1.0; every JPEG encoding of a later save is made with that quality, and
\* every page of a later capture or convert is rendered with that scale.
C9_OptionsInRange ==
    pc = "run" =>
        /\ config.jpeg_quality = InRangeQuality(args.jpeg_quality)
        /\ config.jpeg_quality >= 0 /\ config.jpeg_quality <= 100
        /\ config.resolution_scale = InRangeScale(args.resolution_scale)
        /\ config.resolution_scale >= 2
        /\ \A k \in 1..Len(last.calls) :
              LET c == last.calls[k]
              IN  (c.format = JPEG /\ IsSome(c.data)) =>
                     Get(Get(c.data).enc).properties
                        = Some(InRangeQuality(args.jpeg_quality))
        /\ \A p \in DOMAIN files :
              p.ext = JPEG =>
                 Get(files[p].enc).properties = Some(InRangeQuality(args.jpeg_quality))
        /\ \A r \in Renderings :
              r.size.width = r.page.w * InRangeScale(args.resolution_scale)

\* C9 witness: with a quality below 0.0 and a scale below 1.0 requested, a
\* rendered PDF page was saved as JPEG
C9_Witness ==
    /\ args.jpeg_quality < 0
    /\ args.resolution_scale < 2
    /\ Batch("save")
    /\ Renderings # {}
    /\ \E p \in Range(last.files_saved) : p.ext = JPEG

\* round(n / d) for n >= 0, d > 0: to the nearest integer, a tie to the even one
Round(n, d) ==
    LET q == n \div d
        r == n % d
    IN  IF 2 * r < d THEN q
        ELSE IF 2 * r > d THEN q + 1
        ELSE IF q % 2 = 0 THEN q ELSE q + 1

\* C10 as stated: every rendered image measures round(w*s) by round(h*s).
\* Sizes are in quarters, so a whole number n of pixels is the size 4*n.
C10_SizeIsRounded ==
    \A r \in Renderings :
        /\ r.size.width = 4 * Round(r.page.w * config.resolution_scale, 4)
        /\ r.size.height = 4 * Round(r.page.h * config.resolution_scale, 4)

\* C10, amended: every image rendered in a capture or a convert is created
\* with the size (w*s, h*s), the page bounds times the configured scale
\* factor s >= 1, the same factor on both axes and no rounding.
C10_SizeIsScaledBounds ==
    pc = "run" =>
        /\ config.resolution_scale >= 2
        /\ \A r \in Renderings :
              /\ r.size.width = r.page.w * config.resolution_scale
              /\ r.size.height = r.page.h * config.resolution_scale
              /\ r.size.width * r.page.h = r.size.height * r.page.w

\* C10 witness: a convert rendered a page to a size that is no whole number
\* of pixels
C10_Witness ==
    /\ Batch("convert")
    /\ last.rendered # <<>>
    /\ \E k \in 1..Len(last.rendered) : Get(last.rendered[k]).width % 4 # 0

-----------------------------------------------------------------------------
(* C11: what a batch reports *)

\* The last handler call was a save or a convert that ran its batch
AnyBatch == Batch("save") \/ Batch("convert")

\* The pages of the last batch: the images held for a save, the pages of the
\* held document for a convert
PagesAttempted ==
    IF last.op = "save" THEN Len(captured_images)
    ELSE Len(Get(Get(captured_data).pdf))

\* The pages of the last batch for which no file was produced
PagesFailed ==
    Cardinality({i \in 1..PagesAttempted :
                    ~\E k \in DOMAIN last.calls :
                        last.calls[k].page = i /\ last.calls[k].ok})

\* The number of files the last batch wrote: the document of a save, and one
\* for each encoding that was written
FilesWritten ==
    (IF /\ last.op = "save"
        /\ Truthy(captured_data)
        /\ PDF \in Range(config.output_formats)
        /\ DocumentPath(config.filename_prefix, Get(last.timestamp)) \notin last.fails
     THEN 1 ELSE 0)
    + Cardinality({k \in DOMAIN last.calls : last.calls[k].ok})

\* C11 as stated: after every save or convert that runs on captured data, the
\* operation reports the files written together with pages_attempted, the
\* number of pages in the batch, and pages_failed, the number of pages for
\* which no file could be produced.
C11_ReportsAttemptsAndFailures ==
    AnyBatch =>
        /\ IsSome(last.report)
        /\ {"files_written", "pages_attempted", "pages_failed"}
               \subseteq DOMAIN Get(last.report)
        /\ Get(last.report).pages_attempted = PagesAttempted
        /\ Get(last.report).pages_failed = PagesFailed

\* C11 as amended: after every save or convert that runs on captured data, the
\* operation reports the files it wrote and their number, and nothing else: a
\* save that ends normally always reports, a convert reports when it wrote at
\* least one file; the files reported are on disk, and the number reported is
\* the number of files written, not a number of pages.
C11_ReportsFilesWritten ==
    AnyBatch =>
        /\ last.op = "save" /\ last.log = "" => IsSome(last.report)
        /\ last.op = "convert" => (IsSome(last.report) <=> FilesWritten > 0)
        /\ IsSome(last.report) =>
              LET r == Get(last.report)
              IN  /\ DOMAIN r = {"files_written", "count"}
                  /\ r.count = FilesWritten
                  /\ Len(r.files_written) = FilesWritten
                  /\ \A k \in DOMAIN r.files_written : r.files_written[k] \in DOMAIN files
                  /\ \A k \in DOMAIN last.calls :
                        last.calls[k].ok =>
                            \E j \in DOMAIN r.files_written :
                                r.files_written[j] = last.calls[k].path

\* C11 witness: a save of three pages whose second page cannot be encoded,
\* with two kinds requested, reported four files
C11_Witness ==
    /\ Batch("save")
    /\ PagesAttempted = 3
    /\ PagesFailed = 1
    /\ IsSome(last.report)
    /\ Get(last.report).count = 4

-----------------------------------------------------------------------------
(* C12: what a capture writes *)

\* The step is a call of readSelectionFromPasteboard_
CaptureStep == Called /\ last'.op = "capture"

\* fs2 is fs1 with data written at path, and nothing else changed
WrittenAt(fs1, fs2, path, data) ==
    /\ DOMAIN fs2 = DOMAIN fs1 \cup {path}
    /\ fs2[path] = data
    /\ \A p \in DOMAIN fs1 : p # path => fs2[p] = fs1[p]

\* C12 as stated: a capture never writes a file; for every pasteboard content,
\* document bytes that fail to parse included, the files are the same after
\* the capture as before it.
C12_CaptureWritesNothing ==
    [][CaptureStep => files' = files]_vars

\* C12 as amended: a capture writes no file, except that when it finds document
\* bytes that fail to parse it writes those bytes, whole, to the document path
\* of the capture's own timestamp (unless that write fails); every other
\* capture leaves the files as they were.
C12_CaptureWritesOnlyRawFallback ==
    [][CaptureStep =>
        LET payload == PayloadOf(Get(pasteboard'))
            path == DocumentPath(config.filename_prefix, Timestamp(now))
        IN  IF IsSome(payload) /\ ~IsSome(PDFDocumentInit(payload))
            THEN IF path \in last'.fails
                 THEN files' = files
                 ELSE WrittenAt(files, files', path, Get(payload))
            ELSE files' = files]_vars

\* C12 witness: the first handler call was a capture of bytes that do not
\* parse, and it left a file holding them
C12_Witness ==
    /\ ncalls = 1
    /\ last.op = "capture"
    /\ pasteboard = Some(PbJunk)
    /\ DOMAIN files = {DocumentPath(config.filename_prefix, Get(last.timestamp))}
    /\ \A p \in DOMAIN files : files[p] = DocJunk

-----------------------------------------------------------------------------
(* C13: the probe of the document aliases *)

\* The entries of seq at the positions in S, in order
Pick(seq, S) ==
    [k \in 1..Cardinality(S) |->
        seq[CHOOSE i \in S : Cardinality({j \in S : j < i}) = k - 1]]

\* The positions of pdf_types whose alias pb offers, and those among them
\* whose data has at least one byte
AliasesAvailable(pb) == {i \in 1..Len(pdf_types) : pdf_types[i] \in DOMAIN pb}
AliasesWithBytes(pb) == {i \in AliasesAvailable(pb) : pb[pdf_types[i]].len > 0}

\* C13: a capture fetches the document aliases in the order 'com.adobe.pdf',
\* NSPasteboardTypePDF, 'public.pdf'. The first alias that is available with
\* non-empty bytes becomes the payload, and nothing is fetched after it: no
\* later alias and no raster type. An alias that is available but empty is
\* fetched and passed over, and the next one is tried.
C13_FirstAliasWithBytesWins ==
    last.op = "capture" =>
        LET pb == Get(pasteboard)
            avail == AliasesAvailable(pb)
            hits == AliasesWithBytes(pb)
        IN  /\ pdf_types = <<"com.adobe.pdf", NSPasteboardTypePDF, "public.pdf">>
            /\ hits # {} =>
                  LET first == CHOOSE i \in hits : \A j \in hits : i <= j
                  IN  /\ captured_data = Some(pb[pdf_types[first]])
                      /\ last.fetched = Pick(pdf_types, {i \in avail : i <= first})
            /\ hits = {} =>
                  /\ captured_data = None
                  /\ Len(last.fetched) >= Cardinality(avail)
                  /\ SubSeq(last.fetched, 1, Cardinality(avail)) = Pick(pdf_types, avail)

\* C13 witness: a capture of a pasteboard that offers all three aliases, the
\* first one empty, and a raster type: the first alias was passed over, the
\* second became the payload, and neither the third nor the raster type was
\* fetched
C13_Witness ==
    /\ last.op = "capture"
    /\ pasteboard = Some(PbC)
    /\ AliasesAvailable(PbC) = {1, 2, 3}
    /\ "public.png" \in DOMAIN PbC
    /\ last.fetched = <<"com.adobe.pdf", NSPasteboardTypePDF>>
    /\ captured_data = Some(DocC)

-----------------------------------------------------------------------------
(* C14: document bytes that do not parse *)

\* Document bytes are held that do not parse as a container
HoldsUnparsed == Truthy(captured_data) /\ ~IsSome(PDFDocumentInit(captured_data))

\* C14: when a capture finds document bytes that do not parse, it returns True,
\* holds the bytes as captured_data with no page and renders nothing; and a
\* later save with the document kind requested, whose write does not fail,
\* writes those bytes as one file, the only file of that save.
C14_UnparsedIsHeldAndSaved ==
    /\ last.op = "capture"
       /\ IsSome(PayloadOf(Get(pasteboard)))
       /\ ~IsSome(PDFDocumentInit(PayloadOf(Get(pasteboard))))
       => /\ last.ret = Some(TRUE)
          /\ captured_data = PayloadOf(Get(pasteboard))
          /\ captured_images = <<>>
          /\ last.rendered = <<>>
    /\ last.op = "save"
       /\ HoldsUnparsed
       /\ PDF \in Range(config.output_formats)
       /\ last.fails = {}
       => LET path == DocumentPath(config.filename_prefix, Timestamp(last.clock))
          IN  /\ path \in DOMAIN files
              /\ files[path] = Get(captured_data)
              /\ last.files_saved = <<path>>
              /\ last.calls = <<>>

\* C14 witness: with the Save button enabled by an earlier capture, bytes that
\* do not parse were captured and then saved as one document
C14_Witness ==
    /\ Batch("save")
    /\ saveEnabled
    /\ pasteboard = Some(PbJunk)
    /\ captured_data = Some(DocJunk)
    /\ captured_images = <<>>
    /\ last.files_saved = <<DocumentPath(config.filename_prefix, Get(last.timestamp))>>
    /\ files[last.files_saved[1]] = DocJunk

-----------------------------------------------------------------------------
(* C15: the walk over the raster types *)

\* The positions of image_types whose type pb offers, and those among them
\* whose data has at least one byte and decodes to an image
RastersAvailable(pb) == {i \in 1..Len(image_types) : image_types[i] \in DOMAIN pb}
RastersUsable(pb) ==
    {i \in RastersAvailable(pb) :
        pb[image_types[i]].len > 0 /\ IsSome(pb[image_types[i]].image)}

\* C15: when no document payload is found, the capture fetches every raster
\* type the pasteboard offers, in the order of the list, and holds one page
\* for each listed type whose bytes are non-empty and decode, in the order of
\* the list: it does not stop at the first success.
C15_EveryUsableRasterIsAPage ==
    last.op = "capture" /\ ~IsSome(PayloadOf(Get(pasteboard))) =>
        LET pb == Get(pasteboard)
            usable == Pick(image_types, RastersUsable(pb))
            probed == Cardinality(AliasesAvailable(pb))
        IN  /\ image_types = <<NSPasteboardTypeTIFF, NSPasteboardTypePNG, "public.tiff",
                               "public.png", "public.jpeg", "public.image">>
            /\ SubSeq(last.fetched, probed + 1, Len(last.fetched))
                  = Pick(image_types, RastersAvailable(pb))
            /\ Len(captured_images) = Cardinality(RastersUsable(pb))
            /\ \A k \in DOMAIN captured_images :
                  /\ captured_images[k].src = pb[usable[k]].id
                  /\ captured_images[k].reps = Get(pb[usable[k]].image).reps

\* C15 witness: a capture found no payload and three usable raster types, two
\* of them offering the same picture, and holds three pages
C15_Witness ==
    /\ last.op = "capture"
    /\ pasteboard = Some(PbRasterAll)
    /\ Len(captured_images) = 3
    /\ captured_images[2].src = captured_images[3].src
    /\ captured_images[1].src # captured_images[2].src

-----------------------------------------------------------------------------
(* C16: a capture that finds nothing *)

\* No known type of pb yields usable bytes: no alias has bytes, and no raster
\* type has bytes that decode
NothingUsable(pb) == ~IsSome(PayloadOf(pb)) /\ RastersUsable(pb) = {}

\* C16: a capture in which no known type yields usable bytes returns False,
\* writes nothing and leaves the session holding nothing, whatever it held
\* before; and as long as the most recent capture was such a one, a save or a
\* convert writes no file.
C16_NothingFoundLeavesIdle ==
    [][/\ CaptureStep /\ NothingUsable(Get(pasteboard'))
          => /\ last'.ret = Some(FALSE)
             /\ captured_data' = None
             /\ captured_images' = <<>>
             /\ files' = files
       /\ /\ Called
          /\ last'.op \in {"save", "convert"}
          /\ IsSome(pasteboard)
          /\ NothingUsable(Get(pasteboard))
          => /\ files' = files
             /\ last'.files_saved = <<>>
             /\ last'.timestamp = None]_vars

\* C16 witness: a session that held a document and its pages made a capture
\* that found only empty and undecodable bytes, which returned False and left
\* it Idle
C16_Witness ==
    /\ last.op = "capture"
    /\ pasteboard = Some(PbRasterBad)
    /\ \E t \in DOMAIN PbRasterBad : PbRasterBad[t].len = 0
    /\ \E t \in DOMAIN PbRasterBad : PbRasterBad[t].len > 0
    /\ last.before.data
    /\ last.before.images > 0
    /\ last.ret = Some(FALSE)
    /\ Idle

-----------------------------------------------------------------------------
(* C17: the two ways an encoder call can fail *)

\* Call k of the last save produced no bytes
EncodingFailed(k) == ~IsSome(last.calls[k].data)

\* Call k of the last save produced bytes that could not be written
WriteFailed(k) == IsSome(last.calls[k].data) /\ last.calls[k].path \in last.fails

\* What call k of the last save gave its caller: the value returned, or that
\* it raised
Outcome(k) == [returned |-> last.calls[k].ok, raised |-> last.calls[k].raised]

\* C17 as stated: for the (page, kind) pairs of a save, an encoding failure
\* and a write failure give different results to the caller of the encoder.
C17_FailuresAreDistinguished ==
    Batch("save") =>
        \A k1, k2 \in DOMAIN last.calls :
            EncodingFailed(k1) /\ WriteFailed(k2) => Outcome(k1) # Outcome(k2)

\* C17 as amended: for every (page, kind) pair of a save the encoder returns
\* True exactly when bytes were produced and written; an encoding failure and
\* a write failure both return False without raising, so that the caller sees
\* the same result for both, and in both cases no file is recorded.
C17_FailuresGiveSameResult ==
    Batch("save") =>
        \A k \in DOMAIN last.calls :
            /\ last.calls[k].ok <=> ~EncodingFailed(k) /\ ~WriteFailed(k)
            /\ last.calls[k].format \in type_map /\ (EncodingFailed(k) \/ WriteFailed(k))
                  => /\ Outcome(k) = [returned |-> FALSE, raised |-> FALSE]
                     /\ \A j \in DOMAIN last.files_saved :
                            last.files_saved[j] # last.calls[k].path

\* C17 witness: one save in which the encoding of one page failed and the
\* write of another failed, with the same result for both
C17_Witness ==
    /\ Batch("save")
    /\ \E k1, k2 \in DOMAIN last.calls :
          /\ EncodingFailed(k1)
          /\ WriteFailed(k2)
          /\ Outcome(k1) = Outcome(k2)

-----------------------------------------------------------------------------
(* C18, C19, C20: the buttons and what the session holds *)

\* C18: in every reachable state, if the Save button is enabled then the
\* session holds something to save: captured_images is non-empty or
\* captured_data is set.
C18_SaveEnabledOnlyWhenHolding ==
    saveEnabled => captured_images # <<>> \/ IsSome(captured_data)

\* C19: in every reachable state, if the Convert button is enabled then the
\* session holds document bytes, those the most recent capture found.
C19_ConvertEnabledOnlyWithDocument ==
    convertEnabled =>
        /\ IsSome(captured_data)
        /\ IsSome(pasteboard)
        /\ captured_data = PayloadOf(Get(pasteboard))

\* C20: whenever readSelectionFromPasteboard_ returns True, the Save button is
\* enabled on return, also when the document bytes did not parse and when the
\* document parsed but gave no page image.
C20_SaveEnabledAfterTrue ==
    last.op = "capture" /\ last.ret = Some(TRUE) => saveEnabled

-----------------------------------------------------------------------------
(* C21: when a PDF file is written *)

\* C21: a PDF file is written only when PDF is among config.output_formats;
\* under a configuration without PDF no .pdf file is ever on disk, whatever
\* captures, saves and converts were made.
C21_PdfOnlyWhenRequested ==
    PDF \notin Range(config.output_formats) =>
        \A p \in DOMAIN files : p.ext # PDF

-----------------------------------------------------------------------------
(* C22: the files of one save *)

\* C22: the paths in files_saved of one saveAllDocuments_ call are pairwise
\* distinct, and the number reported in 'Saved N file(s)' is the number of
\* distinct files written, for every list of output formats the command line
\* accepts.
C22_SavedPathsAreDistinct ==
    Batch("save") /\ IsSome(last.report) =>
        /\ \A j, k \in DOMAIN last.files_saved :
              j # k => last.files_saved[j] # last.files_saved[k]
        /\ Get(last.report).count = Cardinality(Range(last.files_saved))

-----------------------------------------------------------------------------
(* C23: the files of different invocations *)

\* The paths the handler call recorded in l wrote, under the prefix in use:
\* its files_saved, and for a capture the raw PDF it wrote
WrittenBy(l) ==
    Range(l.files_saved)
    \cup (IF l.op = "capture" /\ IsSome(l.timestamp) /\ l.fails = {}
          THEN {DocumentPath(config.filename_prefix, Get(l.timestamp))}
          ELSE {})

\* C23: files written by two different invocations never share a path: no
\* handler call writes to a path that an earlier call has written, even when
\* both run within the same clock second.
C23_InvocationsNeverSharePaths ==
    [][Called => \A p \in WrittenBy(last') : p \notin DOMAIN files]_vars

-----------------------------------------------------------------------------
(* C24: the page numbers of save and of convert *)

\* C24: for a captured document, the page number in the path saveAllDocuments_
\* gives a page's file and the one convertPdfToPng_ gives it are the same,
\* namely the page's 1-based index in the document, also when some page of
\* the document was not returned at capture time.
C24_SameNumberInSaveAndConvert ==
    /\ Batch("save") /\ IsSome(PDFDocumentInit(captured_data)) =>
          \A k \in DOMAIN last.calls :
              last.calls[k].path.page
                  = Format02d(captured_images[last.calls[k].page].page)
    /\ Batch("convert") =>
          \A k \in DOMAIN last.calls :
              last.calls[k].path.page = Format02d(last.calls[k].page)

-----------------------------------------------------------------------------
(* _getBestImageRep on its own: one call on an image with any representations *)

\* The representations the selector is tried on
SelectorReps ==
    {Rep(b, w, h, AllTypes) : b \in BOOLEAN, w \in 0..MaxPixels, h \in 0..MaxPixels}

\* The sequences over S of length at most n
RECURSIVE SeqsUpTo(_, _)
SeqsUpTo(S, n) ==
    IF n = 0 THEN {<<>>}
    ELSE LET shorter == SeqsUpTo(S, n - 1)
         IN  shorter \cup {Append(q, x) : q \in shorter, x \in S}

\* The image the selector is called on (None when captured_images is empty)
SelectorImage == IF captured_images = <<>> THEN None ELSE Some(captured_images[1])

InitSelector ==
    /\ pc = "select"
    /\ args = Arg(<<PDF, PNG>>, DefaultJpegQuality, DefaultResolutionScale)
    /\ config = ConfigInit
    /\ captured_data = None
    /\ captured_images \in
          {<<>>} \cup {<<[size |-> None, reps |-> reps, tiff |-> None,
                         src |-> "image", page |-> 0]>> :
                          reps \in SeqsUpTo(SelectorReps, MaxReps)}
    /\ saveEnabled = FALSE
    /\ convertEnabled = FALSE
    /\ statusLabel = ""
    /\ files = <<>>
    /\ now = 0
    /\ pasteboard = None
    /\ last = LastNone
    /\ ncalls = 0

\* One call of _getBestImageRep
SelectBest ==
    /\ pc = "select"
    /\ pc' = "selected"
    /\ last' = [LastNone EXCEPT !.op = "getBestImageRep",
                                !.best_rep = getBestImageRep(SelectorImage)]
    /\ UNCHANGED <<args, config, captured_data, captured_images, saveEnabled,
                   convertEnabled, statusLabel, files, now, pasteboard, ncalls>>

NextSelector == SelectBest

SpecSelector == InitSelector /\ [][NextSelector]_vars

\* C8: the result of _getBestImageRep is the first, in stored order, of the
\* bitmap representations whose pixel area is the largest; it is none when
\* there is no image, no representation or no bitmap representation, and a
\* representation in every other case.
C8_FirstLargestRaster ==
    pc = "selected" =>
        LET reps == IF IsSome(SelectorImage) THEN Get(SelectorImage).reps ELSE <<>>
            area(i) == reps[i].pixelsWide * reps[i].pixelsHigh
            raster == {i \in 1..Len(reps) : reps[i].bitmap}
            largest == {i \in raster : \A j \in raster : area(j) <= area(i)}
        IN  IF raster = {} THEN last.best_rep = None
            ELSE last.best_rep = Some(reps[CHOOSE i \in largest : \A j \in largest : i <= j])

====
